---- MODULE Spec2Model ----
(***************************************************************************)
(* gammapy.utils.random.inverse_cdf.InverseCDFSampler as a state machine.  *)
(*                                                                         *)
(* A caller owns a density array `pdf`, constructs a sampler from it       *)
(* (InverseCDFSampler.__init__) and then calls sample(size) and            *)
(* sample_axis() any number of times.  numpy arrays are records            *)
(* [shape, data] with `data` in row-major (C) order.  float64 arithmetic   *)
(* is modelled by a binary floating-point format with MantBits significant *)
(* bits (round to nearest, ties to even) whose values are stored as        *)
(* integer multiples of 2^-FracBits; the two non-finite values a division  *)
(* by zero produces are NaN and Inf.                                       *)
(*                                                                         *)
(* To state reproducibility, a second sampler (`twin`) is constructed with *)
(* the same arguments and receives the same calls right after the first.   *)
(***************************************************************************)
EXTENDS Integers, Sequences, FiniteSets, TLC

VARIABLES
    pdf,        \* the caller's density array (the argument `pdf` of __init__)
    phase,      \* "new" | "constructed" | "failed" (__init__ raised)
    self,       \* the sampler's attributes
    twin,       \* the attributes of the second sampler built from the same arguments
    streams,    \* the state of every random stream, by stream id
    last,       \* what the last call on `self` did: its locals, result or exception
    last_twin   \* the same for the last call on `twin`

vars == <<pdf, phase, self, twin, streams, last, last_twin>>

---------------------------------------------------------------------------
(* Bounds of the model *)

MaxLen == 3        \* longest 1-D density
MaxSide == 2       \* longest side of a 2-D density
MaxCells == 4      \* most cells of a 2-D density
MaxCount == 2      \* largest `size` passed to sample
MantBits == 3      \* significant bits of the floating-point format
FracBits == 8      \* a float is an integer multiple of 2^-FracBits

Weights == {0, 3, 4}        \* the cell values densities are built from
AxisArgs == {<<>>, <<0>>, <<1>>, <<2>>}   \* axis=None is <<>>, axis=k is <<k>>

---------------------------------------------------------------------------
(* float64, scaled down *)

NaN == -1    \* 0.0 / 0.0
Inf == -2    \* x / 0.0 for x > 0

RECURSIVE Pow2(_)
Pow2(n) == IF n = 0 THEN 1 ELSE 2 * Pow2(n - 1)

RECURSIVE BitLen(_)
BitLen(x) == IF x = 0 THEN 0 ELSE 1 + BitLen(x \div 2)

One == Pow2(FracBits)                   \* 1.0
Half == Pow2(FracBits - 1)              \* 0.5
DrawStep == Pow2(FracBits - MantBits)   \* spacing of the generator's doubles in [0, 1)

IsFinite(x) == x >= 0

\* a / b rounded to the nearest integer, ties to even
RoundHalfEven(a, b) ==
    LET f == a \div b
        r == a % b
    IN  IF 2 * r < b THEN f
        ELSE IF 2 * r > b THEN f + 1
        ELSE IF f % 2 = 0 THEN f ELSE f + 1

\* the float nearest to num / den (in units of 2^-FracBits), num >= 0, den > 0
Round(num, den) ==
    LET s == IF BitLen(num \div den) > MantBits
             THEN BitLen(num \div den) - MantBits ELSE 0
        step == Pow2(s)
    IN  RoundHalfEven(num, den * step) * step

\* the float of a small integer
FromInt(k) == Round(k * One, 1)

FAdd(a, b) ==
    IF a = NaN \/ b = NaN THEN NaN
    ELSE IF a = Inf \/ b = Inf THEN Inf
    ELSE Round(a + b, 1)

FDiv(a, b) ==
    IF a = NaN \/ b = NaN THEN NaN
    ELSE IF a = Inf THEN (IF b = Inf THEN NaN ELSE Inf)
    ELSE IF b = Inf THEN 0
    ELSE IF b = 0 THEN (IF a = 0 THEN NaN ELSE Inf)
    ELSE Round(a * One, b)

\* |a - b| for a finite a
FAbsDiff(a, b) ==
    IF b = NaN THEN NaN
    ELSE IF b = Inf THEN Inf
    ELSE Round(IF a >= b THEN a - b ELSE b - a, 1)

\* numpy's sort order: finite values, then inf, then nan
SortKey(x) == IF x = NaN THEN 2 ELSE IF x = Inf THEN 1 ELSE 0
Less(a, b) ==
    \/ SortKey(a) < SortKey(b)
    \/ SortKey(a) = 0 /\ SortKey(b) = 0 /\ a < b

\* index + jitter for an integer index and a finite (signed) jitter
AddJitter(index, jitter) ==
    LET v == index * One + jitter
    IN  IF v >= 0 THEN Round(v, 1) ELSE 0 - Round(0 - v, 1)

---------------------------------------------------------------------------
(* numpy arrays *)

RECURSIVE Prod(_)
Prod(s) == IF s = <<>> THEN 1 ELSE Head(s) * Prod(Tail(s))

Array(shape, data) == [shape |-> shape, data |-> data]
NoArray == Array(<<>>, <<>>)
Size(a) == Len(a.data)
Ndim(a) == Len(a.shape)

\* x[i] for a 0-based i
At(seq, i) == seq[i + 1]

\* a[i, j] of a 2-D array
At2(a, i, j) == At(a.data, i * a.shape[2] + j)

\* the cell values of a density, as floats
Cells == {FromInt(w) : w \in Weights}

Shapes ==
    {<<n>> : n \in 0..MaxLen}
    \cup {s \in {<<r, c>> : r \in 0..MaxSide, c \in 0..MaxSide} : Prod(s) <= MaxCells}

Densities == UNION {{Array(s, d) : d \in [1..Prod(s) -> Cells]} : s \in Shapes}

\* the distance in `data` between neighbours along `axis`
Stride(shape, axis) == Prod(SubSeq(shape, axis + 2, Len(shape)))

\* the coordinate along `axis` of the cell at flat offset f
Coord(shape, axis, f) == (f \div Stride(shape, axis)) % shape[axis + 1]

\* np.cumsum(a, axis): running sums along `axis`, accumulated left to right
RECURSIVE CumSumAt(_, _, _)
CumSumAt(a, axis, f) ==
    IF Coord(a.shape, axis, f) = 0 THEN At(a.data, f)
    ELSE FAdd(CumSumAt(a, axis, f - Stride(a.shape, axis)), At(a.data, f))

cumsum(a, axis) == Array(a.shape, [f \in 1..Size(a) |-> CumSumAt(a, axis, f - 1)])

\* a.sum(): all cells added up in memory order
sum(a) ==
    IF Size(a) = 0 THEN 0
    ELSE At(cumsum(Array(<<Size(a)>>, a.data), 0).data, Size(a) - 1)

\* a.ravel() / total
ravel_div(a, total) == [f \in 1..Size(a) |-> FDiv(a.data[f], total)]

\* cdf /= cdf[:, [-1]] on a 2-D array with at least one column: every entry
\* is divided by the last entry of its row (the right-hand side is a copy)
divide_by_last_column(c) ==
    Array(c.shape,
          [f \in 1..Size(c) |->
              FDiv(c.data[f], At2(c, (f - 1) \div c.shape[2], c.shape[2] - 1))])

\* The default sort kind of np.argsort is not stable: the order it gives equal
\* elements is unspecified, and is one of these for a given build.
TieOrders == {"ascending", "descending"}

\* np.argsort(x): the 0-based indices that sort x (nan last)
argsort(x, ties) ==
    LET n == Len(x)
        Before(j, i) ==
            \/ Less(x[j], x[i])
            \/ /\ ~Less(x[i], x[j])
               /\ IF ties = "ascending" THEN j < i ELSE j > i
        Pos(i) == Cardinality({j \in 1..n : j # i /\ Before(j, i)})
    IN  [k \in 1..n |-> (CHOOSE i \in 1..n : Pos(i) = k - 1) - 1]

\* x[index] for an array of 0-based indices
take(x, index) == [k \in 1..Len(index) |-> At(x, index[k])]

---------------------------------------------------------------------------
(* random streams *)

StreamIds == {"global", "a", "b"}
Seeds == 0..(Pow2(MantBits) - 1)

\* the generator's step: a full-period congruential generator whose state is
\* the numerator of the next double
NextState(x) == (5 * x + 3) % Pow2(MantBits)

\* RandomState.random_sample(n): n doubles in [0, 1) and the state left behind
RECURSIVE random_sample(_, _)
random_sample(x, n) ==
    IF n = 0 THEN [vals |-> <<>>, state |-> x]
    ELSE LET r == random_sample(NextState(x), n - 1)
         IN  [vals |-> <<NextState(x) * DrawStep>> \o r.vals, state |-> r.state]

\* RandomState.uniform(low, low + 1.0, n): low + 1.0 * random_sample()
uniform(x, low, n) ==
    LET r == random_sample(x, n)
    IN  [vals |-> [k \in 1..n |-> low + r.vals[k]], state |-> r.state]

\* get_random_state(seed) for an integer seed: a new RandomState(seed), here
\* the stream `fresh`
get_random_state(seed, fresh, st) ==
    [id |-> fresh, streams |-> [st EXCEPT ![fresh] = seed % Pow2(MantBits)]]

---------------------------------------------------------------------------
(* InverseCDFSampler *)

NoSampler ==
    [random_state |-> "none", axis |-> <<>>, cdf |-> NoArray,
     pdf_shape |-> <<>>, sortindex |-> <<>>, pdf |-> <<>>]

\* (mutation of caller_array_after_init) normalising in place, pdf /= pdf.sum(),
\* writes the quotients into the caller's array
caller_array_normalised_in_place(p, axis) ==
    IF axis = <<>> THEN Array(p.shape, ravel_div(p, sum(p))) ELSE p

\* the caller's array once __init__ has run: __init__ builds new arrays
\* (np.cumsum, ravel() / sum) and divides only those in place
caller_array_after_init(p, axis) == p

\* __init__(pdf, axis, random_state=seed)
init(p, axis, seed, ties, fresh, st) ==
    LET rs == get_random_state(seed, fresh, st)
        s0 == [NoSampler EXCEPT !.random_state = rs.id, !.axis = axis]
        raise(e) == [raised |-> e, self |-> NoSampler, streams |-> rs.streams,
                     pdf |-> caller_array_after_init(p, axis)]
        done(s) == [raised |-> "", self |-> s, streams |-> rs.streams,
                    pdf |-> caller_array_after_init(p, axis)]
    IN  IF axis # <<>>
        THEN IF ~(0 - Ndim(p) <= axis[1] /\ axis[1] < Ndim(p))
             THEN raise("AxisError")                 \* np.cumsum
             ELSE LET c == cumsum(p, axis[1])
                  IN  IF Ndim(c) < 2
                      THEN raise("IndexError")       \* cdf[:, [-1]]: too many indices
                      ELSE IF c.shape[2] = 0
                      THEN raise("IndexError")       \* cdf[:, [-1]]: index out of bounds
                      ELSE done([s0 EXCEPT !.cdf = divide_by_last_column(c)])
        ELSE LET norm == ravel_div(p, sum(p))
                 sortindex == argsort(norm, ties)
                 sorted == take(norm, sortindex)
             IN  done([s0 EXCEPT !.pdf_shape = p.shape,
                                 !.sortindex = sortindex,
                                 !.pdf = sorted,
                                 !.cdf = cumsum(Array(<<Len(sorted)>>, sorted), 0)])

NoCall ==
    [op |-> "none", axis |-> <<>>, size |-> 0, raised |-> "", choice |-> <<>>,
     rank |-> <<>>, index |-> <<>>, coords |-> <<>>, shape |-> <<>>, value |-> <<>>]

\* (mutation of random_state_of) drawing with np.random.uniform, from numpy's
\* global generator, which every sampler shares
global_random_state(s) == "global"

\* the stream a sampling call draws from: self.random_state
random_state_of(s) == s.random_state

\* np.searchsorted(x, key): the leftmost insertion point, by bisection
RECURSIVE bisect_left(_, _, _, _)
bisect_left(x, key, lo, hi) ==
    IF lo >= hi THEN lo
    ELSE LET mid == lo + ((hi - lo) \div 2)
         IN  IF Less(At(x, mid), key)
             THEN bisect_left(x, key, mid + 1, hi)
             ELSE bisect_left(x, key, lo, mid)

searchsorted(x, key) == bisect_left(x, key, 0, Len(x))

\* np.unravel_index(f, shape): the row-major coordinates of flat index f
unravel_index(f, shape) == [d \in 1..Len(shape) |-> Coord(shape, d - 1, f)]

\* sample(size): the attributes and streams it leaves, and what it did
sample(s, size, st) ==
    LET rs == random_state_of(s)
        d1 == uniform(st[rs], 0, size)
        st1 == [st EXCEPT ![rs] = d1.state]
        choice == d1.vals
        call == [NoCall EXCEPT !.op = "sample", !.axis = s.axis, !.size = size,
                               !.choice = choice]
    IN  IF Ndim(s.cdf) # 1
        THEN \* np.searchsorted on the 2-D cdf of axis mode
             [self |-> s, streams |-> st1,
              out |-> [call EXCEPT !.raised = "ValueError"]]
        ELSE
        LET rank == [k \in 1..size |-> searchsorted(s.cdf.data, choice[k])]
        IN  IF \E k \in 1..size : rank[k] >= Len(s.sortindex)
            THEN \* self.sortindex[index]
                 [self |-> s, streams |-> st1,
                  out |-> [call EXCEPT !.raised = "IndexError", !.rank = rank]]
            ELSE
            LET index == take(s.sortindex, rank)
                nd == Len(s.pdf_shape)
                coords == [d \in 1..nd |->
                              [k \in 1..size |-> unravel_index(index[k], s.pdf_shape)[d]]]
                d2 == uniform(st1[rs], 0 - Half, nd * size)
                value == [d \in 1..nd |->
                             [k \in 1..size |->
                                 AddJitter(coords[d][k], d2.vals[(d - 1) * size + k])]]
            IN  [self |-> s, streams |-> [st1 EXCEPT ![rs] = d2.state],
                 out |-> [call EXCEPT !.rank = rank, !.index = index,
                                      !.coords = coords, !.shape = <<nd, size>>,
                                      !.value = value]]

\* np.argmin of a sequence: the first nan, else the first minimum (0-based)
argmin_seq(x) ==
    IF \E i \in 1..Len(x) : x[i] = NaN
    THEN (CHOOSE i \in 1..Len(x) : x[i] = NaN /\ \A j \in 1..(i - 1) : x[j] # NaN) - 1
    ELSE (CHOOSE i \in 1..Len(x) :
             /\ \A j \in 1..(i - 1) : Less(x[i], x[j])
             /\ \A j \in (i + 1)..Len(x) : ~Less(x[j], x[i])) - 1

\* np.abs(choice.reshape(-1, 1) - cdf): row i holds |choice[i] - cdf[i, :]|, or
\* |choice[i] - cdf[:]| for the 1-D cdf of flattened mode
abs_diff(choice, cdf) ==
    LET n == Len(choice)
        m == cdf.shape[Len(cdf.shape)]
    IN  Array(<<n, m>>,
              [f \in 1..(n * m) |->
                  FAbsDiff(choice[((f - 1) \div m) + 1],
                           IF Ndim(cdf) = 1 THEN cdf.data[((f - 1) % m) + 1]
                                            ELSE cdf.data[f])])

\* sample_axis(): the attributes and streams it leaves, and what it did
sample_axis(s, st) ==
    LET rs == random_state_of(s)
        n == s.cdf.shape[1]                       \* len(self.cdf)
        d1 == uniform(st[rs], 0, n)
        st1 == [st EXCEPT ![rs] = d1.state]
        choice == d1.vals
        call == [NoCall EXCEPT !.op = "sample_axis", !.axis = s.axis,
                               !.choice = choice]
        diff == abs_diff(choice, s.cdf)
        rows == diff.shape[1]
        cols == diff.shape[2]
        raise(e, st2) == [self |-> s, streams |-> st2, out |-> [call EXCEPT !.raised = e]]
        \* np.argmin(diff, axis=self.axis); a 0-d result is kept as one value
        \* it raises when the dimension it reduces over has length 0
        empty == IF s.axis = <<>> THEN rows * cols = 0
                 ELSE IF s.axis[1] = 0 THEN rows = 0
                 ELSE cols = 0
        index == IF s.axis = <<>> THEN <<argmin_seq(diff.data)>>
                 ELSE IF s.axis[1] = 0
                 THEN [j \in 1..cols |->
                          argmin_seq([i \in 1..rows |-> At2(diff, i - 1, j - 1)])]
                 ELSE [i \in 1..rows |->
                          argmin_seq([j \in 1..cols |-> At2(diff, i - 1, j - 1)])]
        k == IF s.axis = <<>> THEN 1 ELSE Len(index)
        d2 == uniform(st1[rs], 0 - Half, n)
        st2 == [st1 EXCEPT ![rs] = d2.state]
    IN  IF empty
        THEN raise("ValueError", st1)             \* argmin of an empty sequence
        ELSE IF ~(k = n \/ k = 1 \/ n = 1)
        THEN raise("ValueError", st2)             \* operands could not be broadcast
        ELSE LET len == IF k = 1 THEN n ELSE k
                 value == [i \in 1..len |->
                              AddJitter(IF k = 1 THEN index[1] ELSE index[i],
                                        IF n = 1 THEN d2.vals[1] ELSE d2.vals[i])]
             IN  [self |-> s, streams |-> st2,
                  out |-> [call EXCEPT !.index = index, !.shape = <<len>>,
                                       !.value = value]]

---------------------------------------------------------------------------
(* The caller *)

Init ==
    /\ pdf \in Densities
    /\ phase = "new"
    /\ self = NoSampler
    /\ twin = NoSampler
    /\ streams = [i \in StreamIds |-> 0]
    /\ last = NoCall
    /\ last_twin = NoCall

\* a = InverseCDFSampler(pdf, axis, seed); b = InverseCDFSampler(pdf, axis, seed)
Construct(axis, seed, ties) ==
    /\ phase = "new"
    /\ \E a \in {init(pdf, axis, seed, ties, "a", streams)} :
       \E b \in {init(a.pdf, axis, seed, ties, "b", a.streams)} :
           /\ pdf' = b.pdf
           /\ phase' = IF a.raised = "" THEN "constructed" ELSE "failed"
           /\ self' = a.self
           /\ twin' = b.self
           /\ streams' = b.streams
           /\ last' = [NoCall EXCEPT !.op = "__init__", !.axis = axis,
                                     !.raised = a.raised]
           /\ last_twin' = [NoCall EXCEPT !.op = "__init__", !.axis = axis,
                                          !.raised = b.raised]

\* a.sample(size); b.sample(size)
Sample(size) ==
    /\ phase = "constructed"
    /\ \E a \in {sample(self, size, streams)} :
       \E b \in {sample(twin, size, a.streams)} :
           /\ self' = a.self
           /\ twin' = b.self
           /\ streams' = b.streams
           /\ last' = a.out
           /\ last_twin' = b.out
           /\ UNCHANGED <<pdf, phase>>

\* a.sample_axis(); b.sample_axis()
SampleAxis ==
    /\ phase = "constructed"
    /\ \E a \in {sample_axis(self, streams)} :
       \E b \in {sample_axis(twin, a.streams)} :
           /\ self' = a.self
           /\ twin' = b.self
           /\ streams' = b.streams
           /\ last' = a.out
           /\ last_twin' = b.out
           /\ UNCHANGED <<pdf, phase>>

Next ==
    \/ \E axis \in AxisArgs, seed \in Seeds, ties \in TieOrders :
           Construct(axis, seed, ties)
    \/ \E size \in 0..MaxCount : Sample(size)
    \/ SampleAxis

Spec == Init /\ [][Next]_vars

---------------------------------------------------------------------------
(* Vocabulary of the properties *)

Flattened == phase = "constructed" /\ self.axis = <<>>
AxisMode == phase = "constructed" /\ self.axis # <<>>

ValidAxis(axis, p) == axis = <<>> \/ (0 - Ndim(p) <= axis[1] /\ axis[1] < Ndim(p))

\* the exact total of a sequence of finite floats
RECURSIVE Total(_)
Total(x) == IF x = <<>> THEN 0 ELSE Head(x) + Total(Tail(x))

\* the cells of p whose coordinates other than `axis` are those of offset f
Slice(p, axis, f) ==
    LET len == p.shape[axis + 1]
        first == f - Coord(p.shape, axis, f) * Stride(p.shape, axis)
    IN  [i \in 1..len |-> At(p.data, first + (i - 1) * Stride(p.shape, axis))]

\* the mass the constructor normalises by is positive: the grand total, or
\* the total of every slice along the axis
PositiveMass(p, axis) ==
    IF axis = <<>> THEN Total(p.data) > 0
    ELSE /\ Size(p) > 0
         /\ \A f \in 0..(Size(p) - 1) : Total(Slice(p, axis[1], f)) > 0

NonDecreasing(x) ==
    \A i \in 1..Len(x) : IsFinite(x[i]) /\ (i > 1 => x[i - 1] <= x[i])

\* within n roundings of 1.0
NearOne(x, n) == IsFinite(x) /\ x >= One - n * DrawStep /\ x <= One + n * DrawStep

\* the one cell of p that is not zero, when there is exactly one
OneHot(p) == Cardinality({f \in 1..Size(p) : p.data[f] # 0}) = 1
HotCell(p) == (CHOOSE f \in 1..Size(p) : p.data[f] # 0) - 1

\* row-major flattening of the d-dimensional coordinates of sample k
RECURSIVE Flatten(_, _, _, _)
Flatten(coords, shape, k, d) ==
    IF d = 0 THEN 0
    ELSE Flatten(coords, shape, k, d - 1) * shape[d] + coords[d][k]

---------------------------------------------------------------------------
(* C1: a density of one or more cells whose total mass (the grand total in  *)
(* flattened mode, the total of any slice along the axis in axis mode) is   *)
(* not positive never yields a constructed sampler: the constructor raises. *)
C1_DegenerateNeverConstructed ==
    (phase = "constructed" /\ Size(pdf) >= 1) => PositiveMass(pdf, self.axis)

(* C2: in flattened mode over n >= 1 cells every rank sample computes is in *)
(* 0..n-1, so sample does not index out of bounds and the unravelled        *)
(* coordinates lie inside the density's shape.                              *)
C2_RankInBounds ==
    (Flattened /\ Size(pdf) >= 1 /\ last.op = "sample") =>
        /\ last.raised = ""
        /\ \A k \in 1..last.size :
              /\ last.rank[k] \in 0..(Size(pdf) - 1)
              /\ \A d \in 1..Ndim(pdf) : last.coords[d][k] \in 0..(pdf.shape[d] - 1)

(* C3: for a density that is non-zero in exactly one cell c, every sample   *)
(* that sample returns selects cell c before jitter: no zero-weight cell is *)
(* ever selected.                                                           *)
C3_OnlyTheHotCell ==
    (Flattened /\ OneHot(pdf) /\ last.op = "sample") =>
        /\ last.raised = ""
        /\ \A k \in 1..last.size : last.index[k] = HotCell(pdf)

(* C4: for a density of positive mass the CDF is non-decreasing and         *)
(* normalised: in flattened mode its last entry is 1 up to rounding; in     *)
(* axis mode on a 2-D density, for every valid axis, the sampler is         *)
(* constructed and every slice of the CDF along the axis is non-decreasing  *)
(* and ends in 1.                                                           *)
C4_CdfNormalised ==
    /\ (Flattened /\ PositiveMass(pdf, <<>>)) =>
          /\ NonDecreasing(self.cdf.data)
          /\ NearOne(self.cdf.data[Size(pdf)], Size(pdf))
    /\ (last.op = "__init__" /\ last.axis # <<>> /\ ValidAxis(last.axis, pdf)
        /\ Ndim(pdf) = 2 /\ PositiveMass(pdf, last.axis)) =>
          /\ phase = "constructed"
          /\ \A f \in 0..(Size(pdf) - 1) :
                LET row == Slice(self.cdf, last.axis[1], f)
                IN  NonDecreasing(row) /\ row[Len(row)] = One

(* C5: construction leaves the caller's density array as it was, and a      *)
(* sampling call leaves it and every attribute of the sampler (CDF, sort    *)
(* permutation, recorded shape) unchanged; of the random streams it moves   *)
(* only the samplers' own, never the global one.                            *)
C5_SamplingChangesOnlyTheStream ==
    [][/\ pdf' = pdf
       /\ streams'["global"] = streams["global"]
       /\ phase = "constructed" => self' = self]_vars

\* a sampling call has returned coordinates and moved the sampler's stream
C5_Witness ==
    /\ Flattened /\ Size(pdf) > 1 /\ PositiveMass(pdf, <<>>)
    /\ last.op = "sample" /\ last.raised = "" /\ last.size = MaxCount
    /\ streams["a"] # streams["global"]

(* C6: two samplers built from the same density, axis and integer seed      *)
(* behave identically under the same sequence of calls: each call raises    *)
(* the same exception or returns the same values on both.                   *)
C6_Determinism ==
    /\ last_twin.raised = last.raised
    /\ last_twin.value = last.value

\* both samplers have returned the same non-empty result
C6_Witness ==
    /\ Flattened /\ Ndim(pdf) = 2 /\ PositiveMass(pdf, <<>>)
    /\ last.op = "sample" /\ last.raised = "" /\ last.size = MaxCount
    /\ last.value[1][1] # last.value[1][2]
    /\ last_twin.value = last.value

(* C7: in flattened mode sample(count) returns, for every count >= 0, an    *)
(* array of shape (ndim, count): one coordinate per dimension per sample.   *)
C7_ResultShape ==
    (Flattened /\ last.op = "sample") =>
        /\ last.raised = ""
        /\ last.shape = <<Ndim(pdf), last.size>>
        /\ Len(last.value) = Ndim(pdf)
        /\ \A d \in 1..Ndim(pdf) : Len(last.value[d]) = last.size

(* C8: no sampler is constructed from a density with zero elements, nor     *)
(* with an axis that is out of range for the density's rank.                *)
C8_InvalidShapeNeverConstructed ==
    phase = "constructed" => (Size(pdf) > 0 /\ ValidAxis(self.axis, pdf))

(* C9: in flattened mode the sort permutation is a bijection on 0..n-1 that *)
(* orders the normalised weights ascending; for every draw u sample selects *)
(* the smallest rank r with cdf[r] >= u, maps it through the permutation to *)
(* the flat index f and returns the row-major coordinates of f.             *)
C9_InverseTransform ==
    Flattened =>
        /\ {self.sortindex[k] : k \in 1..Size(pdf)} = 0..(Size(pdf) - 1)
        /\ \A k \in 2..Size(pdf) : ~Less(self.pdf[k], self.pdf[k - 1])
        /\ last.op = "sample" =>
              /\ last.raised = ""
              /\ \A k \in 1..last.size :
                    LET r == last.rank[k]
                        u == last.choice[k]
                    IN  /\ r \in 0..(Size(pdf) - 1)
                        /\ IsFinite(At(self.cdf.data, r)) /\ At(self.cdf.data, r) >= u
                        /\ \A i \in 0..(r - 1) : At(self.cdf.data, i) < u
                        /\ last.index[k] = At(self.sortindex, r)
                        /\ Flatten(last.coords, pdf.shape, k, Ndim(pdf)) = last.index[k]

(* C10: on a 2-D density whose slices along the axis all have positive      *)
(* mass, sample_axis returns exactly R values, one per slice, R being the   *)
(* length of the complementary dimension; this holds for every valid axis   *)
(* and for non-square densities.                                            *)
C10_OneValuePerRow ==
    (AxisMode /\ Ndim(pdf) = 2 /\ PositiveMass(pdf, self.axis)
     /\ last.op = "sample_axis") =>
        /\ last.raised = ""
        /\ Len(last.value) = pdf.shape[2 - self.axis[1]]

====
